---- MODULE Spec2Model ----
(***************************************************************************)
(* Model of the image extraction tools of mcp-image-extractor              *)
(* (src/src/image-utils.ts, current revision, lines 1-679):                *)
(*   extractImageFromFile, extractImageFromUrl, extractImageFromBase64,    *)
(*   extractScreenshotFromUrl and the helper compressImage,                *)
(* and of the save_screenshot tool of the earlier server                   *)
(* (src/unnamed/part_002, lines 180-215).                                  *)
(*                                                                         *)
(* Every tool function is an async function; it is modelled as a small     *)
(* program with one step per await (the synchronous code between two       *)
(* awaits belongs to the step that runs it).  The collaborators (file      *)
(* system, axios, sharp, puppeteer) are the environment: their answers are *)
(* facts of `world`, drawn when a call first asks for them and kept, so    *)
(* that two invocations of the same run see the same file, the same HTTP   *)
(* response and the same image.                                            *)
(*                                                                         *)
(* Strings that the code inspects (URLs, host names, the ALLOWED_DOMAINS   *)
(* environment value) are sequences of one-character strings.              *)
(* An image dimension of 0 stands for a dimension sharp reports as 0 or    *)
(* does not report at all (undefined): both are falsy in                   *)
(* `metadata.width && metadata.height`.                                    *)
(***************************************************************************)
EXTENDS Integers, Sequences, FiniteSets, TLC

VARIABLES
    ALLOWED_DOMAINS,   \* image-utils.ts:9   list of allowed host names
    MAX_IMAGE_SIZE,    \* image-utils.ts:8   size ceiling in bytes
    world,             \* the answers of the collaborators, once given
    inv,               \* the invocations: id -> local state of the async function
    active,            \* the invocation that is running
    disk               \* the directories and files under the working directory

vars == <<ALLOWED_DOMAINS, MAX_IMAGE_SIZE, world, inv, active, disk>>

(***************************************************************************)
(* Program constants                                                       *)
(***************************************************************************)
DEFAULT_MAX_WIDTH == 512

DEFAULT_MAX_HEIGHT == 512

DefaultMaxImageSize == 10485760

(***************************************************************************)
(* Bounds of the model                                                     *)
(***************************************************************************)
\* dimensions 0..MaxSmall are explored
MaxSmall == 1

\* dimensions 512-Margin .. 512+Margin are explored
Margin == 1

Min(a, b) == IF a <= b THEN a ELSE b

Max(a, b) == IF a >= b THEN a ELSE b

(***************************************************************************)
(* Strings                                                                 *)
(***************************************************************************)
\* String.prototype.startsWith
StartsWith(s, p) ==
    /\ Len(p) <= Len(s)
    /\ SubSeq(s, 1, Len(p)) = p

\* String.prototype.endsWith
EndsWith(s, p) ==
    /\ Len(p) <= Len(s)
    /\ SubSeq(s, Len(s) - Len(p) + 1, Len(s)) = p

\* String.prototype.split(",")
RECURSIVE SplitComma(_)
SplitComma(s) ==
    IF \E i \in 1..Len(s) : s[i] = ","
    THEN LET i == CHOOSE j \in 1..Len(s) :
                      /\ s[j] = ","
                      /\ \A k \in 1..(j - 1) : s[k] # ","
         IN  <<SubSeq(s, 1, i - 1)>> \o SplitComma(SubSeq(s, i + 1, Len(s)))
    ELSE <<s>>

\* process.env.ALLOWED_DOMAINS ? process.env.ALLOWED_DOMAINS.split(",") : []
\* (an unset variable and the empty string are both falsy)
ParseAllowedDomains(env) ==
    IF env = <<>> THEN <<>> ELSE SplitComma(env)

HTTP == <<"h", "t", "t", "p", ":", "/", "/">>

HTTPS == <<"h", "t", "t", "p", "s", ":", "/", "/">>

FTP == <<"f", "t", "p", ":", "/", "/">>

ex_com == <<"e", "x", ".", "c", "o", "m">>

cdn_ex_com == <<"c", "d", "n", ".">> \o ex_com

notex_com == <<"n", "o", "t">> \o ex_com

evil_com == <<"e", "v", "i", "l", ".", "c", "o", "m">>

o_org == <<"o", ".", "o", "r", "g">>

x_png == <<"/", "x">>

\* The URLs a caller passes: scheme://host/path, host names in lower case,
\* no port and no user info; HTTPS alone is a URL that `new URL` rejects.
Urls ==
    { HTTPS \o ex_com \o x_png,
      HTTP \o cdn_ex_com \o x_png,
      HTTPS \o notex_com \o x_png,
      HTTPS \o evil_com \o x_png,
      FTP \o ex_com \o x_png,
      HTTPS }

\* The values of the environment variable ALLOWED_DOMAINS
AllowedDomainsEnv ==
    { <<>>,
      ex_com,
      o_org \o <<",">> \o ex_com }

\* url.startsWith('http://') || url.startsWith('https://')
HasHttpScheme(url) == StartsWith(url, HTTP) \/ StartsWith(url, HTTPS)

\* The part of an http(s) URL between the scheme and the first "/".
HostPart(url) ==
    LET start == IF StartsWith(url, HTTPS) THEN Len(HTTPS) + 1 ELSE Len(HTTP) + 1
        rest  == SubSeq(url, start, Len(url))
        stop  == IF \E i \in 1..Len(rest) : rest[i] = "/"
                 THEN (CHOOSE i \in 1..Len(rest) :
                          /\ rest[i] = "/"
                          /\ \A k \in 1..(i - 1) : rest[k] # "/") - 1
                 ELSE Len(rest)
    IN  SubSeq(rest, 1, stop)

\* new URL(url) throws a TypeError (Invalid URL) on an http(s) URL without host
UrlParses(url) == HostPart(url) # <<>>

\* new URL(url).hostname
Hostname(url) == HostPart(url)

(***************************************************************************)
(* Policy: the domain allow-list                                           *)
(***************************************************************************)
\* the suffix test without the dot boundary
IsAllowed_NoDot(domain, allowed) ==
    \E k \in 1..Len(allowed) :
        \/ domain = allowed[k]
        \/ EndsWith(domain, allowed[k])

\* ALLOWED_DOMAINS.some(allowedDomain =>
\*     domain === allowedDomain || domain.endsWith(`.${allowedDomain}`))
IsAllowed(domain, allowed) ==
    \E k \in 1..Len(allowed) :
        \/ domain = allowed[k]
        \/ EndsWith(domain, <<".">> \o allowed[k])

(***************************************************************************)
(* Tool results.  A text is a sequence of parts: a literal of the template *)
(* string, an interpolated string or number, or the message of a caught    *)
(* exception (named after the call that threw).                            *)
(***************************************************************************)
Lit(s) == [lit |-> s]

Str(s) == [str |-> s]

Num(n) == [num |-> n]

Exc(name) == [exc |-> name]

\* { content: [{ type: "text", text }], isError: true }
Failure(text) ==
    [isError |-> TRUE, content |-> <<[type |-> "text", text |-> text]>>]

\* "Error: URL must start with http:// or https://"
SchemeErrorText == <<Lit("Error: URL must start with http:// or https://")>>

\* a message that lists the allowed domains instead of the rejected one
DomainErrorText_ListsAllowed(domain, allowed) ==
    <<Lit("Error: Domain not allowed. Allowed domains: ")>> \o
    [k \in 1..Len(allowed) |-> Str(allowed[k])]

\* `Error: Domain ${domain} is not in the allowed domains list`
DomainErrorText(domain, allowed) ==
    <<Lit("Error: Domain "), Str(domain), Lit(" is not in the allowed domains list")>>

\* `Error: File ${file_path} does not exist`
FileMissingText(file_path) ==
    <<Lit("Error: File "), Str(file_path), Lit(" does not exist")>>

\* `Error: Image size exceeds maximum allowed size of ${MAX_IMAGE_SIZE} bytes`
TooLargeText(max) ==
    <<Lit("Error: Image size exceeds maximum allowed size of "), Num(max), Lit(" bytes")>>

\* `Error: Invalid base64 string - ${e.message}` with the Error thrown two lines above
InvalidBase64Text ==
    <<Lit("Error: Invalid base64 string - "),
      Lit("Invalid base64 string - decoded to empty buffer")>>

\* `Error: Invalid base64 string - ${e.message}` with what Buffer.from threw
InvalidBase64ThrownText ==
    <<Lit("Error: Invalid base64 string - "), Exc("Buffer.from")>>

\* `Error: Could not process image data - ${e.message}`
ProbeErrorText(name) == <<Lit("Error: Could not process image data - "), Exc(name)>>

\* `Error: ${error instanceof Error ? error.message : String(error)}`
CaughtText(name) == <<Lit("Error: "), Exc(name)>>

\* { content: [{ type: "text", text: JSON.stringify(json) },
\*             { type: "image", data: buffer.toString("base64"), mimeType }] }
\* (no isError key).  `json.size` is imageBuffer.length: the length of `data`.
Success(json, buffer, mimeType) ==
    [isError |-> FALSE,
     content |-> <<[type |-> "text", json |-> json],
                   [type |-> "image", data |-> buffer, mimeType |-> mimeType]>>]

NoResult == [isError |-> FALSE, content |-> <<>>]

(***************************************************************************)
(* sharp                                                                   *)
(***************************************************************************)
\* round(a / b) for a >= 0, b > 0, halves rounded up
RoundDiv(a, b) == (2 * a + b) \div (2 * b)

\* one pixel more on each axis
ResizeDims_OffByOne(w, h, tw, th) ==
    LET byWidth == w * th >= h * tw
        num0    == IF byWidth THEN w ELSE h
        den0    == IF byWidth THEN tw ELSE th
        shrinks == num0 > den0
        num     == IF shrinks THEN num0 ELSE 1
        den     == IF shrinks THEN den0 ELSE 1
        Axis(x) == IF num >= x * den THEN 1 ELSE RoundDiv(x * den, num)
    IN  IF shrinks THEN <<Axis(w) + 1, Axis(h) + 1>> ELSE <<w, h>>

\* The size sharp gives a w x h image for
\*   .resize({ width: tw, height: th, fit: 'inside', withoutEnlargement: true })
\* One shrink factor for both axes, the larger of w/tw and h/th, at least 1
\* (no enlargement); no axis is shrunk below one pixel.
ResizeDims(w, h, tw, th) ==
    LET byWidth == w * th >= h * tw            \* w/tw >= h/th
        num0    == IF byWidth THEN w ELSE h
        den0    == IF byWidth THEN tw ELSE th
        shrinks == num0 > den0                 \* factor > 1
        num     == IF shrinks THEN num0 ELSE 1
        den     == IF shrinks THEN den0 ELSE 1
        Axis(x) == IF num >= x * den THEN 1 ELSE RoundDiv(x * den, num)
    IN  <<Axis(w), Axis(h)>>

\* A buffer: where its bytes came from and the sharp operations applied since.
Acquired(src) == [src |-> src, ops |-> <<>>]

NoBuffer == Acquired("none")

Resized(buffer, tw, th) ==
    [buffer EXCEPT !.ops = Append(@, [op |-> "resize", width |-> tw, height |-> th])]

Encoded(buffer, encoder) ==
    [buffer EXCEPT !.ops = Append(@, [op |-> "encode", width |-> 0, height |-> 0, encoder |-> encoder])]

\* What sharp(buffer).metadata() reports for a buffer derived from an image
\* whose own metadata is `image`.
RECURSIVE MetadataAfter(_, _)
MetadataAfter(image, ops) ==
    IF ops = <<>> THEN image
    ELSE LET before == MetadataAfter(image, SubSeq(ops, 1, Len(ops) - 1))
             last   == ops[Len(ops)]
         IN  IF last.op = "resize"
             THEN LET d == ResizeDims(before.width, before.height, last.width, last.height)
                  IN  [before EXCEPT !.width = d[1], !.height = d[2]]
             ELSE IF last.encoder = "same" THEN before
             ELSE [before EXCEPT !.format = last.encoder]

NoMetadata == [width |-> 0, height |-> 0, format |-> "none"]

\* compressImage: the encoder chosen for formatStr
\* (COMPRESSION_OPTIONS keys; gif and svg are written back without options,
\* any other format is encoded as JPEG)
CompressEncoder(formatStr) ==
    CASE formatStr \in {"jpeg", "jpg"} -> "jpeg"
      [] formatStr = "png"  -> "png"
      [] formatStr = "webp" -> "webp"
      [] formatStr = "avif" -> "avif"
      [] formatStr = "tiff" -> "tiff"
      [] formatStr \in {"gif", "svg"} -> "same"
      [] OTHER -> "jpeg"

(***************************************************************************)
(* File names                                                              *)
(***************************************************************************)
UpperCase == <<"A", "B", "E", "G", "J", "M", "N", "P">>

LowerCase == <<"a", "b", "e", "g", "j", "m", "n", "p">>

\* String.prototype.toLowerCase
ToLowerCase(s) ==
    [k \in 1..Len(s) |->
        IF \E u \in 1..Len(UpperCase) : UpperCase[u] = s[k]
        THEN LowerCase[CHOOSE u \in 1..Len(UpperCase) : UpperCase[u] = s[k]]
        ELSE s[k]]

\* path.extname: from the last "." of the name to its end, "" when the name
\* has no "." or only a leading one (names here have no directory part)
ExtName(file_path) ==
    LET dots == {k \in 2..Len(file_path) : file_path[k] = "."}
    IN  IF dots = {} THEN <<>>
        ELSE SubSeq(file_path, CHOOSE k \in dots : \A d \in dots : d <= k, Len(file_path))

\* the extension compared as it is written
FileType_CaseSensitive(file_path) ==
    LET fileExt == ExtName(file_path)
    IN  CASE fileExt = <<".", "p", "n", "g">> -> [mimeType |-> "image/png", format |-> "png"]
          [] fileExt \in {<<".", "j", "p", "g">>, <<".", "j", "p", "e", "g">>}
                -> [mimeType |-> "image/jpeg", format |-> "jpeg"]
          [] fileExt = <<".", "g", "i", "f">> -> [mimeType |-> "image/gif", format |-> "gif"]
          [] fileExt = <<".", "w", "e", "b", "p">> -> [mimeType |-> "image/webp", format |-> "webp"]
          [] fileExt = <<".", "s", "v", "g">> -> [mimeType |-> "image/svg+xml", format |-> "svg"]
          [] fileExt = <<".", "a", "v", "i", "f">> -> [mimeType |-> "image/avif", format |-> "avif"]
          [] OTHER -> [mimeType |-> "image/jpeg", format |-> "jpeg"]

\* image-utils.ts 185-213: mime type and compression format of a file
FileType(file_path) ==
    LET fileExt == ToLowerCase(ExtName(file_path))
    IN  CASE fileExt = <<".", "p", "n", "g">> -> [mimeType |-> "image/png", format |-> "png"]
          [] fileExt \in {<<".", "j", "p", "g">>, <<".", "j", "p", "e", "g">>}
                -> [mimeType |-> "image/jpeg", format |-> "jpeg"]
          [] fileExt = <<".", "g", "i", "f">> -> [mimeType |-> "image/gif", format |-> "gif"]
          [] fileExt = <<".", "w", "e", "b", "p">> -> [mimeType |-> "image/webp", format |-> "webp"]
          [] fileExt = <<".", "s", "v", "g">> -> [mimeType |-> "image/svg+xml", format |-> "svg"]
          [] fileExt = <<".", "a", "v", "i", "f">> -> [mimeType |-> "image/avif", format |-> "avif"]
          [] OTHER -> [mimeType |-> "image/jpeg", format |-> "jpeg"]

\* mime_type.split("/")[1] for the mime types callers pass here
MimeSubtype(mime_type) ==
    CASE mime_type = "image/png" -> "png"
      [] mime_type = "image/jpeg" -> "jpeg"
      [] OTHER -> ""

(***************************************************************************)
(* Requests                                                                *)
(***************************************************************************)
\* resize, max_width, max_height as a caller may pass them
Params ==
    { [resize |-> TRUE,  max_width |-> 800, max_height |-> 600],
      [resize |-> TRUE,  max_width |-> 100, max_height |-> 100],
      [resize |-> FALSE, max_width |-> 512, max_height |-> 512] }

FilePaths ==
    { <<"a", ".", "P", "N", "G">>,
      <<"a", ".", "b", "m", "p">>,
      <<"a", ".", "j", "p", "g">>,
      <<"a", ".", "J", "P", "E", "G">>,
      <<"a", ".", "g", "i", "f">>,
      <<"a", ".", "w", "e", "b", "p">>,
      <<"a", ".", "s", "v", "g">>,
      <<"a", ".", "a", "v", "i", "f">>,
      <<"a">> }

\* The byte lengths a read, a download or a decode may give
Lengths == {0, DefaultMaxImageSize, DefaultMaxImageSize + 1}

MimeTypes == {"image/png", "image/jpeg"}

\* viewport and page interaction of a screenshot request; "" is no selector
ScreenshotOptions ==
    { [viewport_width |-> 1920, viewport_height |-> 1080, full_page |-> TRUE,
       wait_for_load |-> 2000, wait_for_selector |-> "", click_selector |-> "",
       click_wait_after |-> 500],
      [viewport_width |-> 375, viewport_height |-> 667, full_page |-> FALSE,
       wait_for_load |-> 0, wait_for_selector |-> "#main", click_selector |-> "#menu",
       click_wait_after |-> 500],
      [viewport_width |-> 1920, viewport_height |-> 1080, full_page |-> TRUE,
       wait_for_load |-> 2000, wait_for_selector |-> "", click_selector |-> "#menu",
       click_wait_after |-> 0] }

FileRequests ==
    { [tool |-> "file", file_path |-> f,
       resize |-> p.resize, max_width |-> p.max_width, max_height |-> p.max_height]
      : f \in FilePaths, p \in Params }

UrlRequests ==
    { [tool |-> "url", url |-> u,
       resize |-> p.resize, max_width |-> p.max_width, max_height |-> p.max_height]
      : u \in Urls, p \in Params }

\* The base64 argument is known by what Buffer.from(base64, "base64") does
\* with it: a string decodes to a buffer of some length (characters outside
\* the alphabet are skipped, so any string decodes); a value that is not a
\* string, a buffer or an array makes Buffer.from throw a TypeError.
Base64Payloads ==
    { [decodedLength |-> n, throws |-> FALSE] : n \in Lengths } \cup
    { [decodedLength |-> 0, throws |-> TRUE] }

Base64Requests ==
    { [tool |-> "base64", base64 |-> b, mime_type |-> m,
       resize |-> p.resize, max_width |-> p.max_width, max_height |-> p.max_height]
      : b \in Base64Payloads, m \in MimeTypes, p \in Params }

ScreenshotRequests ==
    { [tool |-> "screenshot", url |-> u,
       viewport_width |-> o.viewport_width, viewport_height |-> o.viewport_height,
       full_page |-> o.full_page, wait_for_load |-> o.wait_for_load,
       wait_for_selector |-> o.wait_for_selector, click_selector |-> o.click_selector,
       click_wait_after |-> o.click_wait_after,
       resize |-> p.resize, max_width |-> p.max_width, max_height |-> p.max_height]
      : u \in Urls, o \in ScreenshotOptions, p \in Params }

Requests == FileRequests \cup UrlRequests \cup Base64Requests \cup ScreenshotRequests

(***************************************************************************)
(* The environment                                                         *)
(***************************************************************************)
Grid == (0..MaxSmall) \cup ((DEFAULT_MAX_WIDTH - Margin)..(DEFAULT_MAX_WIDTH + Margin))

\* sizes of the test suites and two degenerate strips
TestSizes ==
    { <<1920, 1080>>, <<1080, 1920>>, <<1600, 900>>, <<1200, 800>>, <<3440, 1440>>,
      <<1920, 5000>>, <<2000, 2000>>, <<400, 300>>, <<1080, 1>> }

Sizes == (Grid \X Grid) \cup TestSizes

Formats == {"png", "jpeg"}

\* sharp(buffer).metadata() rejects
BadImage == [ok |-> FALSE, width |-> 0, height |-> 0, format |-> "none"]

Images ==
    { [ok |-> TRUE, width |-> s[1], height |-> s[2], format |-> f]
      : s \in Sizes, f \in Formats } \cup {BadImage}

\* page.screenshot({ type: "png" }) gives a PNG with at least one pixel
ScreenshotImages ==
    { im \in Images : im.ok => (im.format = "png" /\ im.width > 0 /\ im.height > 0) }

\* fs.readFileSync throws, or gives a buffer
FileReads == {[ok |-> FALSE, len |-> 0]} \cup {[ok |-> TRUE, len |-> n] : n \in Lengths}

\* response.headers['content-type'], "" when the header is absent
HttpResponses ==
    {[ok |-> FALSE, len |-> 0, contentType |-> ""]} \cup
    {[ok |-> TRUE, len |-> n, contentType |-> t] : n \in Lengths, t \in {"", "image/png"}}

\* Nothing has been asked yet
NoAnswers ==
    [fileExists |-> {}, fileRead |-> {}, http |-> {}, image |-> {},
     resize |-> {}, reprobe |-> {}, compress |-> {},
     launch |-> {}, newPage |-> {}, setViewport |-> {}, goto |-> {},
     waitForSelector |-> {}, clickSelector |-> {}, click |-> {},
     screenshot |-> {}, close |-> {}]

\* the answers a call may get: the one already given, else any of `choices`
Answers(f, choices) == IF world[f] = {} THEN choices ELSE world[f]

(***************************************************************************)
(* One invocation of a tool function                                       *)
(***************************************************************************)
\* The locals of the async function, where it stands (pc), and a record of
\* what it did: the calls it made in order (trace), the arguments of its
\* resize calls and the answers of its metadata calls.
NewInvocation(req) ==
    [req         |-> req,
     pc          |-> "start",
     imageBuffer |-> NoBuffer,
     metadata    |-> NoMetadata,
     contentType |-> "",
     browser     |-> FALSE,
     viewport    |-> <<0, 0>>,
     result      |-> NoResult,
     rejected    |-> FALSE,
     trace       |-> <<>>,
     resizeArgs  |-> <<>>,
     probes      |-> <<>>]

Called(c, name) == [c EXCEPT !.trace = Append(@, name)]

\* `return res`: the three image functions are done; in extractScreenshotFromUrl
\* the finally block runs first
Return(c, res) ==
    [c EXCEPT !.result = res,
              !.pc = IF c.req.tool = "screenshot" THEN "finally" ELSE "done"]

\* a catch block that leaves the function without its finally block
Catch_NoFinally(c, name) ==
    [c EXCEPT !.result = Failure(CaughtText(name)), !.pc = "done"]

\* the outer catch block of each function
Catch(c, name) == Return(c, Failure(CaughtText(name)))

Truthy(n) == n # 0

\* the bound taken from the caller's max_width
TargetWidth_FromParams(metadata, req) == Min(metadata.width, req.max_width)

\* const targetWidth = Math.min(metadata.width, DEFAULT_MAX_WIDTH)
TargetWidth(metadata, req) == Min(metadata.width, DEFAULT_MAX_WIDTH)

\* the bound taken from the caller's max_height
TargetHeight_FromParams(metadata, req) == Min(metadata.height, req.max_height)

\* const targetHeight = Math.min(metadata.height, DEFAULT_MAX_HEIGHT)
TargetHeight(metadata, req) == Min(metadata.height, DEFAULT_MAX_HEIGHT)

\* >= in place of >
NeedsResize_AtLeast(metadata, req) ==
    /\ Truthy(metadata.width)
    /\ Truthy(metadata.height)
    /\ \/ metadata.width >= TargetWidth(metadata, req)
       \/ metadata.height >= TargetHeight(metadata, req)

\* && in place of ||
NeedsResize_BothAxes(metadata, req) ==
    /\ Truthy(metadata.width)
    /\ Truthy(metadata.height)
    /\ metadata.width > TargetWidth(metadata, req)
    /\ metadata.height > TargetHeight(metadata, req)

\* without the test of metadata.width && metadata.height
NeedsResize_NoDimensionTest(metadata, req) ==
    \/ metadata.width > TargetWidth(metadata, req)
    \/ metadata.height > TargetHeight(metadata, req)

\* if (metadata.width && metadata.height) {
\*   if (metadata.width > targetWidth || metadata.height > targetHeight) { resize }
NeedsResize(metadata, req) ==
    /\ Truthy(metadata.width)
    /\ Truthy(metadata.height)
    /\ \/ metadata.width > TargetWidth(metadata, req)
       \/ metadata.height > TargetHeight(metadata, req)

\* the format handed to compressImage
CompressFormat(c) ==
    CASE c.req.tool = "file" -> FileType(c.req.file_path).format
      [] c.req.tool = "url" ->
            IF c.metadata.format # "" THEN c.metadata.format ELSE "jpeg"
      [] c.req.tool = "base64" ->
            IF c.metadata.format # "" THEN c.metadata.format
            ELSE IF MimeSubtype(c.req.mime_type) # "" THEN MimeSubtype(c.req.mime_type)
            ELSE "jpeg"
      [] OTHER -> "png"

\* the mimeType of the image block
ResultMimeType(c) ==
    CASE c.req.tool = "file" -> FileType(c.req.file_path).mimeType
      [] c.req.tool = "url" -> IF c.contentType # "" THEN c.contentType ELSE "image/jpeg"
      [] c.req.tool = "base64" -> c.req.mime_type
      [] OTHER -> "image/png"

\* the viewport reported from the captured image
ResultJson_ViewportOfImage(c, buffer) ==
    IF c.req.tool = "screenshot"
    THEN [url |-> c.req.url,
          viewport |-> [width |-> c.metadata.width, height |-> c.metadata.height],
          full_page |-> c.req.full_page,
          click_selector |-> IF c.req.click_selector # "" THEN c.req.click_selector ELSE "null",
          click_wait_after |-> c.req.click_wait_after,
          width |-> c.metadata.width, height |-> c.metadata.height,
          format |-> c.metadata.format, size |-> [lengthOf |-> buffer]]
    ELSE [width |-> c.metadata.width, height |-> c.metadata.height,
          format |-> c.metadata.format, size |-> [lengthOf |-> buffer]]

\* the object given to JSON.stringify, for the buffer that is returned
ResultJson(c, buffer) ==
    IF c.req.tool = "screenshot"
    THEN [url |-> c.req.url,
          viewport |-> [width |-> c.req.viewport_width, height |-> c.req.viewport_height],
          full_page |-> c.req.full_page,
          click_selector |-> IF c.req.click_selector # "" THEN c.req.click_selector ELSE "null",
          click_wait_after |-> c.req.click_wait_after,
          width |-> c.metadata.width, height |-> c.metadata.height,
          format |-> c.metadata.format, size |-> [lengthOf |-> buffer]]
    ELSE [width |-> c.metadata.width, height |-> c.metadata.height,
          format |-> c.metadata.format, size |-> [lengthOf |-> buffer]]

\* the length of the buffer the function obtained
AcquiredLength(c) ==
    CASE c.req.tool = "file" -> (CHOOSE r \in world.fileRead : TRUE).len
      [] c.req.tool = "url" -> (CHOOSE r \in world.http : TRUE).len
      [] c.req.tool = "base64" -> c.req.base64.decodedLength
      [] OTHER -> 1

\* what sharp reads in a buffer of the run: an empty buffer is no image
ImagesOf(c) ==
    IF AcquiredLength(c) = 0 THEN {BadImage}
    ELSE IF c.req.tool = "screenshot" THEN ScreenshotImages
    ELSE Images

Frame == UNCHANGED <<ALLOWED_DOMAINS, MAX_IMAGE_SIZE, active, disk>>

Running(i, pc) == inv[i].pc = pc

(***************************************************************************)
(* extractImageFromFile, up to its first await (lines 138-160)             *)
(***************************************************************************)
StartFile(i) ==
    /\ Running(i, "start")
    /\ inv[i].req.tool = "file"
    /\ \E exists \in Answers("fileExists", BOOLEAN) :
       \E read \in Answers("fileRead", FileReads) :
          LET c == inv[i] IN
          IF ~exists
          THEN /\ world' = [world EXCEPT !.fileExists = {exists}]
               /\ inv' = [inv EXCEPT ![i] =
                            Return(Called(c, "fs.existsSync"),
                                   Failure(FileMissingText(c.req.file_path)))]
          ELSE /\ world' = [world EXCEPT !.fileExists = {exists}, !.fileRead = {read}]
               /\ LET c1 == Called(Called(c, "fs.existsSync"), "fs.readFileSync") IN
                  inv' = [inv EXCEPT ![i] =
                            IF ~read.ok THEN Catch(c1, "fs.readFileSync")
                            ELSE IF read.len > MAX_IMAGE_SIZE
                            THEN Return(c1, Failure(TooLargeText(MAX_IMAGE_SIZE)))
                            ELSE [c1 EXCEPT !.imageBuffer = Acquired("file"),
                                            !.pc = "probe"]]
    /\ Frame

(***************************************************************************)
(* URL validation shared by extractImageFromUrl (259-281) and              *)
(* extractScreenshotFromUrl (511-544)                                      *)
(***************************************************************************)
\* without the scheme test
ValidateUrl_NoSchemeCheck(url, allowed) ==
    IF Len(allowed) > 0
    THEN IF ~UrlParses(url) THEN Failure(CaughtText("new URL"))
         ELSE IF ~IsAllowed(Hostname(url), allowed)
         THEN Failure(DomainErrorText(Hostname(url), allowed))
         ELSE NoResult
    ELSE NoResult

\* NoResult when the URL passes, else the result the validation returns
ValidateUrl(url, allowed) ==
    IF ~HasHttpScheme(url) THEN Failure(SchemeErrorText)
    ELSE IF Len(allowed) > 0
    THEN IF ~UrlParses(url) THEN Failure(CaughtText("new URL"))
         ELSE IF ~IsAllowed(Hostname(url), allowed)
         THEN Failure(DomainErrorText(Hostname(url), allowed))
         ELSE NoResult
    ELSE NoResult

StartUrl(i) ==
    /\ Running(i, "start")
    /\ inv[i].req.tool = "url"
    /\ LET c == inv[i]
           v == ValidateUrl(c.req.url, ALLOWED_DOMAINS)
       IN  inv' = [inv EXCEPT ![i] =
                     IF v # NoResult THEN Return(c, v) ELSE [c EXCEPT !.pc = "fetch"]]
    /\ UNCHANGED world
    /\ Frame

\* await axios.get(url, { responseType: 'arraybuffer', maxContentLength: MAX_IMAGE_SIZE })
\* axios rejects on a network error, an error status, an unusable URL or a
\* body longer than maxContentLength
Fetch(i) ==
    /\ Running(i, "fetch")
    /\ \E response \in Answers("http", HttpResponses) :
          /\ world' = [world EXCEPT !.http = {response}]
          /\ LET c == Called(inv[i], "axios.get") IN
             inv' = [inv EXCEPT ![i] =
                       IF \/ ~response.ok
                          \/ ~UrlParses(c.req.url)
                          \/ response.len > MAX_IMAGE_SIZE
                       THEN Catch(c, "axios.get")
                       ELSE [c EXCEPT !.imageBuffer = Acquired("http"),
                                      !.contentType = response.contentType,
                                      !.pc = "probe"]]
    /\ Frame

(***************************************************************************)
(* extractImageFromBase64, up to its first await (lines 362-403)           *)
(***************************************************************************)
\* without the size ceiling of lines 387-398
StartBase64_NoCeiling(i) ==
    /\ Running(i, "start")
    /\ inv[i].req.tool = "base64"
    /\ LET c == inv[i]
           length == c.req.base64.decodedLength
       IN  inv' = [inv EXCEPT ![i] =
                     IF c.req.base64.throws THEN Return(c, Failure(InvalidBase64ThrownText))
                     ELSE IF length = 0 THEN Return(c, Failure(InvalidBase64Text))
                     ELSE [c EXCEPT !.imageBuffer = Acquired("base64"), !.pc = "probe"]]
    /\ UNCHANGED world
    /\ Frame

\* without the test of an empty decode of lines 369-372
StartBase64_EmptyIsValid(i) ==
    /\ Running(i, "start")
    /\ inv[i].req.tool = "base64"
    /\ LET c == inv[i]
           length == c.req.base64.decodedLength
       IN  inv' = [inv EXCEPT ![i] =
                     IF c.req.base64.throws THEN Return(c, Failure(InvalidBase64ThrownText))
                     ELSE IF length > MAX_IMAGE_SIZE
                     THEN Return(c, Failure(TooLargeText(MAX_IMAGE_SIZE)))
                     ELSE [c EXCEPT !.imageBuffer = Acquired("base64"), !.pc = "probe"]]
    /\ UNCHANGED world
    /\ Frame

StartBase64(i) ==
    /\ Running(i, "start")
    /\ inv[i].req.tool = "base64"
    /\ LET c == inv[i]
           length == c.req.base64.decodedLength
       IN  inv' = [inv EXCEPT ![i] =
                     IF c.req.base64.throws THEN Return(c, Failure(InvalidBase64ThrownText))
                     ELSE IF length = 0 THEN Return(c, Failure(InvalidBase64Text))
                     ELSE IF length > MAX_IMAGE_SIZE
                     THEN Return(c, Failure(TooLargeText(MAX_IMAGE_SIZE)))
                     ELSE [c EXCEPT !.imageBuffer = Acquired("base64"), !.pc = "probe"]]
    /\ UNCHANGED world
    /\ Frame

(***************************************************************************)
(* The normalization pipeline, the same code in the four functions:        *)
(* file 160-244, url 291-347, base64 401-474, screenshot 603-660           *)
(***************************************************************************)
\* a probe whose failure is logged and the pipeline goes on to compression
Probe_FailureContinues(i) ==
    /\ Running(i, "probe")
    /\ \E image \in (IF AcquiredLength(inv[i]) = 0 THEN {BadImage}
                      ELSE Answers("image", ImagesOf(inv[i]))) :
          /\ world' = [world EXCEPT !.image = IF @ = {} THEN {image} ELSE @]
          /\ LET c == Called(inv[i], "sharp.metadata")
                 metadata == [width |-> image.width, height |-> image.height,
                              format |-> image.format]
             IN  inv' = [inv EXCEPT ![i] =
                     IF ~image.ok
                     THEN [c EXCEPT !.pc = "compress"]
                     ELSE [c EXCEPT !.metadata = metadata,
                                    !.probes = Append(@, metadata),
                                    !.pc = IF NeedsResize(metadata, c.req)
                                           THEN "resize" ELSE "compress"]]
    /\ Frame

\* let metadata = await sharp(imageBuffer).metadata(), then the decision to resize
Probe(i) ==
    /\ Running(i, "probe")
    /\ \E image \in (IF AcquiredLength(inv[i]) = 0 THEN {BadImage}
                      ELSE Answers("image", ImagesOf(inv[i]))) :
          /\ world' = [world EXCEPT !.image = IF @ = {} THEN {image} ELSE @]
          /\ LET c == Called(inv[i], "sharp.metadata")
                 metadata == [width |-> image.width, height |-> image.height,
                              format |-> image.format]
             IN  inv' = [inv EXCEPT ![i] =
                     IF ~image.ok
                     THEN IF c.req.tool = "base64"
                          THEN Return(c, Failure(ProbeErrorText("sharp.metadata")))
                          ELSE Catch(c, "sharp.metadata")
                     ELSE [c EXCEPT !.metadata = metadata,
                                    !.probes = Append(@, metadata),
                                    !.pc = IF NeedsResize(metadata, c.req)
                                           THEN "resize" ELSE "compress"]]
    /\ Frame

\* imageBuffer = await sharp(imageBuffer).resize({ width: targetWidth,
\*     height: targetHeight, fit: 'inside', withoutEnlargement: true }).toBuffer()
Resize(i) ==
    /\ Running(i, "resize")
    /\ \E ok \in Answers("resize", BOOLEAN) :
          /\ world' = [world EXCEPT !.resize = {ok}]
          /\ LET c0 == inv[i]
                 targetWidth == TargetWidth(c0.metadata, c0.req)
                 targetHeight == TargetHeight(c0.metadata, c0.req)
                 c == [Called(c0, "sharp.resize") EXCEPT
                          !.resizeArgs = Append(@, [width |-> targetWidth,
                                                    height |-> targetHeight,
                                                    fit |-> "inside",
                                                    withoutEnlargement |-> TRUE])]
             IN  inv' = [inv EXCEPT ![i] =
                     IF ~ok THEN Catch(c, "sharp.resize")
                     ELSE [c EXCEPT !.imageBuffer = Resized(@, targetWidth, targetHeight),
                                    !.pc = "reprobe"]]
    /\ Frame

\* the target of the resize taken as the size of its output
Reprobe_ReportsTarget(i) ==
    /\ Running(i, "reprobe")
    /\ \E ok \in Answers("reprobe", BOOLEAN) :
          /\ world' = [world EXCEPT !.reprobe = {ok}]
          /\ LET c == Called(inv[i], "sharp.metadata")
                 target == c.resizeArgs[Len(c.resizeArgs)]
                 metadata == [width |-> target.width, height |-> target.height,
                              format |-> c.metadata.format]
             IN  inv' = [inv EXCEPT ![i] =
                     IF ~ok THEN Catch(c, "sharp.metadata")
                     ELSE [c EXCEPT !.metadata = metadata,
                                    !.probes = Append(@, metadata),
                                    !.pc = "compress"]]
    /\ Frame

\* metadata = await sharp(imageBuffer).metadata()   (after the resize)
Reprobe(i) ==
    /\ Running(i, "reprobe")
    /\ \E ok \in Answers("reprobe", BOOLEAN) :
          /\ world' = [world EXCEPT !.reprobe = {ok}]
          /\ LET c == Called(inv[i], "sharp.metadata")
                 image == CHOOSE im \in world.image : TRUE
                 after == MetadataAfter(image, c.imageBuffer.ops)
                 metadata == [width |-> after.width, height |-> after.height,
                              format |-> after.format]
             IN  inv' = [inv EXCEPT ![i] =
                     IF ~ok THEN Catch(c, "sharp.metadata")
                     ELSE [c EXCEPT !.metadata = metadata,
                                    !.probes = Append(@, metadata),
                                    !.pc = "compress"]]
    /\ Frame

\* a failed compression that reaches the outer catch block
Compress_FailureAborts(i) ==
    /\ Running(i, "compress")
    /\ \E ok \in Answers("compress", BOOLEAN) :
          /\ world' = [world EXCEPT !.compress = {ok}]
          /\ LET c == Called(inv[i], "compressImage")
                 buffer == Encoded(c.imageBuffer, CompressEncoder(CompressFormat(c)))
             IN  inv' = [inv EXCEPT ![i] =
                     IF ~ok THEN Catch(c, "compressImage")
                     ELSE Return([c EXCEPT !.imageBuffer = buffer],
                                 Success(ResultJson(c, buffer), buffer, ResultMimeType(c)))]
    /\ Frame

\* try { imageBuffer = await compressImage(imageBuffer, format) } catch { warn }
\* and the return of the two content blocks
Compress(i) ==
    /\ Running(i, "compress")
    /\ \E ok \in Answers("compress", BOOLEAN) :
          /\ world' = [world EXCEPT !.compress = {ok}]
          /\ LET c == Called(inv[i], "compressImage")
                 buffer == IF ok
                           THEN Encoded(c.imageBuffer, CompressEncoder(CompressFormat(c)))
                           ELSE c.imageBuffer
             IN  inv' = [inv EXCEPT ![i] =
                     Return([c EXCEPT !.imageBuffer = buffer],
                            Success(ResultJson(c, buffer), buffer, ResultMimeType(c)))]
    /\ Frame

(***************************************************************************)
(* extractScreenshotFromUrl, lines 495-601 and 661-678                     *)
(***************************************************************************)
StartScreenshot(i) ==
    /\ Running(i, "start")
    /\ inv[i].req.tool = "screenshot"
    /\ LET c == inv[i]
           v == ValidateUrl(c.req.url, ALLOWED_DOMAINS)
       IN  inv' = [inv EXCEPT ![i] =
                     IF v # NoResult THEN Return(c, v) ELSE [c EXCEPT !.pc = "launch"]]
    /\ UNCHANGED world
    /\ Frame

\* the click step left out: the capture follows the wait for wait_for_selector
AfterWaitForSelector_NoClick(req) == "screenshot"

AfterWaitForSelector(req) ==
    IF req.click_selector # "" THEN "clickSelector" ELSE "screenshot"

AfterWaitLoad(req) ==
    IF req.wait_for_selector # "" THEN "waitForSelector" ELSE AfterWaitForSelector(req)

AfterGoto(req) ==
    IF req.wait_for_load > 0 THEN "waitLoad" ELSE AfterWaitLoad(req)

\* browser = await puppeteer.launch(...)
Launch(i) ==
    /\ Running(i, "launch")
    /\ \E ok \in Answers("launch", BOOLEAN) :
          /\ world' = [world EXCEPT !.launch = {ok}]
          /\ LET c == Called(inv[i], "puppeteer.launch") IN
             inv' = [inv EXCEPT ![i] =
                       IF ~ok THEN Catch(c, "puppeteer.launch")
                       ELSE [c EXCEPT !.browser = TRUE, !.pc = "newPage"]]
    /\ Frame

\* const page = await browser.newPage()
NewPage(i) ==
    /\ Running(i, "newPage")
    /\ \E ok \in Answers("newPage", BOOLEAN) :
          /\ world' = [world EXCEPT !.newPage = {ok}]
          /\ LET c == Called(inv[i], "browser.newPage") IN
             inv' = [inv EXCEPT ![i] =
                       IF ~ok THEN Catch(c, "browser.newPage")
                       ELSE [c EXCEPT !.pc = "setViewport"]]
    /\ Frame

\* await page.setViewport({ width: viewport_width, height: viewport_height })
SetViewport(i) ==
    /\ Running(i, "setViewport")
    /\ \E ok \in Answers("setViewport", BOOLEAN) :
          /\ world' = [world EXCEPT !.setViewport = {ok}]
          /\ LET c == Called(inv[i], "page.setViewport") IN
             inv' = [inv EXCEPT ![i] =
                       IF ~ok THEN Catch(c, "page.setViewport")
                       ELSE [c EXCEPT !.viewport = <<c.req.viewport_width,
                                                     c.req.viewport_height>>,
                                      !.pc = "goto"]]
    /\ Frame

\* await page.goto(url, { waitUntil: "networkidle0" })
Goto(i) ==
    /\ Running(i, "goto")
    /\ \E ok \in Answers("goto", BOOLEAN) :
          /\ world' = [world EXCEPT !.goto = {ok}]
          /\ LET c == Called(inv[i], "page.goto") IN
             inv' = [inv EXCEPT ![i] =
                       IF ~ok \/ ~UrlParses(c.req.url) THEN Catch(c, "page.goto")
                       ELSE [c EXCEPT !.pc = AfterGoto(c.req)]]
    /\ Frame

\* if (wait_for_load > 0) await new Promise(resolve => setTimeout(resolve, wait_for_load))
WaitLoad(i) ==
    /\ Running(i, "waitLoad")
    /\ LET c == Called(inv[i], "sleep wait_for_load") IN
       inv' = [inv EXCEPT ![i] = [c EXCEPT !.pc = AfterWaitLoad(c.req)]]
    /\ UNCHANGED world
    /\ Frame

\* try { await page.waitForSelector(wait_for_selector, { timeout: 10000 }) } catch { warn }
WaitForSelector(i) ==
    /\ Running(i, "waitForSelector")
    /\ \E ok \in Answers("waitForSelector", BOOLEAN) :
          /\ world' = [world EXCEPT !.waitForSelector = {ok}]
          /\ LET c == Called(inv[i], "page.waitForSelector wait_for_selector") IN
             inv' = [inv EXCEPT ![i] = [c EXCEPT !.pc = AfterWaitForSelector(c.req)]]
    /\ Frame

\* try { await page.waitForSelector(click_selector, { timeout: 10000 }); ...
ClickSelector(i) ==
    /\ Running(i, "clickSelector")
    /\ \E ok \in Answers("clickSelector", BOOLEAN) :
          /\ world' = [world EXCEPT !.clickSelector = {ok}]
          /\ LET c == Called(inv[i], "page.waitForSelector click_selector") IN
             inv' = [inv EXCEPT ![i] =
                       [c EXCEPT !.pc = IF ok THEN "click" ELSE "screenshot"]]
    /\ Frame

\* a failed click that reaches the outer catch block
Click_Aborts(i) ==
    /\ Running(i, "click")
    /\ \E ok \in Answers("click", BOOLEAN) :
          /\ world' = [world EXCEPT !.click = {ok}]
          /\ LET c == Called(inv[i], "page.click") IN
             inv' = [inv EXCEPT ![i] =
                       IF ~ok THEN Catch(c, "page.click")
                       ELSE [c EXCEPT !.pc = IF c.req.click_wait_after > 0
                                             THEN "clickWaitAfter" ELSE "screenshot"]]
    /\ Frame

\* ... await page.click(click_selector); ... } catch { warn }
Click(i) ==
    /\ Running(i, "click")
    /\ \E ok \in Answers("click", BOOLEAN) :
          /\ world' = [world EXCEPT !.click = {ok}]
          /\ LET c == Called(inv[i], "page.click") IN
             inv' = [inv EXCEPT ![i] =
                       [c EXCEPT !.pc = IF ok /\ c.req.click_wait_after > 0
                                        THEN "clickWaitAfter" ELSE "screenshot"]]
    /\ Frame

\* if (click_wait_after > 0) await new Promise(resolve => setTimeout(resolve, click_wait_after))
ClickWaitAfter(i) ==
    /\ Running(i, "clickWaitAfter")
    /\ LET c == Called(inv[i], "sleep click_wait_after") IN
       inv' = [inv EXCEPT ![i] = [c EXCEPT !.pc = "screenshot"]]
    /\ UNCHANGED world
    /\ Frame

\* const screenshotBuffer = await page.screenshot({ fullPage: full_page, type: "png" })
Screenshot(i) ==
    /\ Running(i, "screenshot")
    /\ \E ok \in Answers("screenshot", BOOLEAN) :
          /\ world' = [world EXCEPT !.screenshot = {ok}]
          /\ LET c == Called(inv[i], "page.screenshot") IN
             inv' = [inv EXCEPT ![i] =
                       IF ~ok THEN Catch(c, "page.screenshot")
                       ELSE [c EXCEPT !.imageBuffer = Acquired("screenshot"),
                                      !.pc = "probe"]]
    /\ Frame

\* a browser handle kept in one variable of the module: closing it takes the
\* handle away from every invocation
Finally_SharedBrowser(i) ==
    /\ Running(i, "finally")
    /\ IF inv[i].browser
       THEN \E ok \in Answers("close", BOOLEAN) :
               /\ world' = [world EXCEPT !.close = {ok}]
               /\ LET c == Called(inv[i], "browser.close") IN
                  inv' = [j \in DOMAIN inv |->
                            IF j = i
                            THEN IF ok THEN [c EXCEPT !.pc = "done"]
                                 ELSE [c EXCEPT !.pc = "done", !.result = NoResult,
                                                !.rejected = TRUE]
                            ELSE [inv[j] EXCEPT !.browser = FALSE]]
       ELSE /\ inv' = [inv EXCEPT ![i].pc = "done"]
            /\ UNCHANGED world
    /\ Frame

\* finally { if (browser) { await browser.close() } }
\* an exception of close replaces the result: the promise of the function rejects
Finally(i) ==
    /\ Running(i, "finally")
    /\ IF inv[i].browser
       THEN \E ok \in Answers("close", BOOLEAN) :
               /\ world' = [world EXCEPT !.close = {ok}]
               /\ LET c == Called(inv[i], "browser.close") IN
                  inv' = [inv EXCEPT ![i] =
                            IF ok THEN [c EXCEPT !.pc = "done"]
                            ELSE [c EXCEPT !.pc = "done", !.result = NoResult,
                                           !.rejected = TRUE]]
       ELSE /\ inv' = [inv EXCEPT ![i].pc = "done"]
            /\ UNCHANGED world
    /\ Frame

(***************************************************************************)
(* save_screenshot, the tool of the earlier server                         *)
(* (src/unnamed/part_002, lines 180-215).  Its results carry no isError    *)
(* key and no image block.                                                 *)
(***************************************************************************)
\* process.cwd()
Cwd == <<"/", "w">>

screenshots == <<"s", "c", "r", "e", "e", "n", "s", "h", "o", "t", "s">>

screenshot_dash == <<"s", "c", "r", "e", "e", "n", "s", "h", "o", "t", "-">>

\* path.join(a, b) for a without a trailing "/" and b without "/" or ".."
PathJoin(a, b) == a \o <<"/">> \o b

\* path.join(process.cwd(), 'screenshots')
ScreenshotsDir == PathJoin(Cwd, screenshots)

\* new Date().toISOString() at the calls of a run
Instants ==
    { <<"2", "0", "2", "5", "-", "0", "1", "-", "0", "2", "T", "0",
        "3", ":", "0", "4", ":", "0", "5", ".", "6", "7", "8", "Z">>,
      <<"2", "0", "2", "5", "-", "1", "2", "-", "3", "1", "T", "2",
        "3", ":", "5", "9", ":", "5", "9", ".", "9", "9", "9", "Z">> }

\* .replace(/[:.]/g, '-')
ReplaceColonsAndDots(t) ==
    [k \in 1..Len(t) |-> IF t[k] \in {":", "."} THEN "-" ELSE t[k]]

\* z.enum(["png", "jpg", "jpeg", "webp"])
SaveFormats ==
    { <<"p", "n", "g">>, <<"j", "p", "g">>, <<"j", "p", "e", "g">>, <<"w", "e", "b", "p">> }

\* filename: "" (the default) or a name without extension
FileNames == { <<>>, <<"s", "h", "o", "t">> }

\* The base64 argument of save_screenshot is known by the length of what it
\* decodes to and by whether sharp reads an image in it
SavePayloads ==
    { [decodedLength |-> 0, isImage |-> FALSE],
      [decodedLength |-> 68, isImage |-> FALSE],
      [decodedLength |-> 68, isImage |-> TRUE] }

SaveRequests ==
    { [tool |-> "save", base64 |-> b, filename |-> f, format |-> x]
      : b \in SavePayloads, f \in FileNames, x \in SaveFormats }

\* the encoder sharp's toFormat selects: "jpg" is an alias of "jpeg"
SaveEncoder(format) ==
    CASE format \in {<<"j", "p", "g">>, <<"j", "p", "e", "g">>} -> "jpeg"
      [] format = <<"p", "n", "g">> -> "png"
      [] OTHER -> "webp"

\* the sizes an encoded file may have on disk
SavedSizes == {70, 1024}

NoDisk == [dirs |-> {}, files |-> {}]

\* the working directory before a call: without screenshots/, with an empty
\* one, with one that holds shot.png
Disks ==
    { NoDisk,
      [dirs |-> {ScreenshotsDir}, files |-> {}],
      [dirs |-> {ScreenshotsDir},
       files |-> {[path |-> PathJoin(ScreenshotsDir, <<"s", "h", "o", "t", ".", "p", "n", "g">>),
                   encoder |-> "png", size |-> 7]}] }

\* { content: [{ type: "text", text: `Screenshot saved to ${filePath}` }] }
SavedResult(filePath) ==
    [isError |-> FALSE,
     content |-> <<[type |-> "text", text |-> <<Lit("Screenshot saved to "), Str(filePath)>>]>>]

\* { content: [{ type: "text", text: `Error: ${error.message}` }] }
SaveErrorResult(name) ==
    [isError |-> FALSE, content |-> <<[type |-> "text", text |-> CaughtText(name)]>>]

\* the locals of the handler
NewSave(req) ==
    [req      |-> req,
     pc       |-> "start",
     filePath |-> <<>>,
     result   |-> NoResult,
     rejected |-> FALSE,
     trace    |-> <<>>]

\* the default name with "_" in place of "-"
FinalFilename_Underscore(filename, timestamp) ==
    IF filename # <<>> THEN filename
    ELSE SubSeq(screenshot_dash, 1, Len(screenshot_dash) - 1) \o <<"_">> \o timestamp

\* finalFilename = filename || `screenshot-${timestamp}`
FinalFilename(filename, timestamp) ==
    IF filename # <<>> THEN filename ELSE screenshot_dash \o timestamp

\* path.join(screenshotsDir, `${finalFilename}.${format}`)
FilePath(filename, timestamp, format) ==
    PathJoin(ScreenshotsDir, FinalFilename(filename, timestamp) \o <<".">> \o format)

\* lines 190-202: the directory, the name, the decode; up to the await of toFile
StartSave(i) ==
    /\ Running(i, "start")
    /\ inv[i].req.tool = "save"
    /\ \E now \in Instants, made \in BOOLEAN :
          LET c0 == Called(inv[i], "fs.existsSync")
              exists == ScreenshotsDir \in disk.dirs
              timestamp == ReplaceColonsAndDots(now)
              filePath == FilePath(c0.req.filename, timestamp, c0.req.format)
          IN  IF exists
              THEN /\ made
                   /\ disk' = disk
                   /\ inv' = [inv EXCEPT ![i] =
                                [c0 EXCEPT !.filePath = filePath, !.pc = "toFile"]]
              ELSE IF made
              THEN /\ disk' = [disk EXCEPT !.dirs = @ \cup {ScreenshotsDir}]
                   /\ inv' = [inv EXCEPT ![i] =
                                [Called(c0, "fs.mkdirSync") EXCEPT
                                    !.filePath = filePath, !.pc = "toFile"]]
              ELSE /\ disk' = disk
                   /\ inv' = [inv EXCEPT ![i] =
                                [Called(c0, "fs.mkdirSync") EXCEPT
                                    !.result = SaveErrorResult("fs.mkdirSync"),
                                    !.pc = "done"]]
    /\ UNCHANGED <<ALLOWED_DOMAINS, MAX_IMAGE_SIZE, world, active>>

\* line 203: await sharp(imageBuffer).toFormat(format).toFile(filePath)
\* rejects when the buffer holds no image or the file cannot be written;
\* writes the file anew when it exists
ToFile(i) ==
    /\ Running(i, "toFile")
    /\ \E written \in BOOLEAN, size \in SavedSizes :
          LET c == Called(inv[i], "sharp.toFile")
              file == [path |-> c.filePath, encoder |-> SaveEncoder(c.req.format),
                       size |-> size]
          IN  IF c.req.base64.isImage /\ written
              THEN /\ disk' = [disk EXCEPT !.files =
                                  {f \in @ : f.path # c.filePath} \cup {file}]
                   /\ inv' = [inv EXCEPT ![i] =
                                [c EXCEPT !.result = SavedResult(c.filePath), !.pc = "done"]]
              ELSE /\ size = 70
                   /\ disk' = disk
                   /\ inv' = [inv EXCEPT ![i] =
                                [c EXCEPT !.result = SaveErrorResult("sharp.toFile"),
                                          !.pc = "done"]]
    /\ UNCHANGED <<ALLOWED_DOMAINS, MAX_IMAGE_SIZE, world, active>>

(***************************************************************************)
(* A run: one request, then the same request again with other values of    *)
(* resize, max_width and max_height, in the same environment.              *)
(***************************************************************************)
Again ==
    /\ active = 1
    /\ Running(1, "done")
    /\ \E p \in Params :
          /\ <<p.resize, p.max_width, p.max_height>> #
                <<inv[1].req.resize, inv[1].req.max_width, inv[1].req.max_height>>
          /\ inv' = [inv EXCEPT ![2] =
                       NewInvocation([inv[1].req EXCEPT !.resize = p.resize,
                                                       !.max_width = p.max_width,
                                                       !.max_height = p.max_height])]
    /\ active' = 2
    /\ UNCHANGED <<ALLOWED_DOMAINS, MAX_IMAGE_SIZE, world, disk>>

(***************************************************************************)
(* A run: one request, then its Success given to extractImageFromBase64:   *)
(* the base64 argument is the data of the image block, which decodes to    *)
(* the buffer the first call returned.  What sharp reads in that buffer is *)
(* the first image after the operations applied to it; the other answers   *)
(* concern a new buffer and are open again.                                *)
(***************************************************************************)
Feed ==
    /\ active = 1
    /\ Running(1, "done")
    /\ inv[1].result # NoResult
    /\ ~inv[1].result.isError
    /\ LET out == inv[1].result.content[2]
           image == CHOOSE im \in world.image : TRUE
           after == MetadataAfter(image, out.data.ops)
       IN  /\ world' = [NoAnswers EXCEPT !.image = {after}]
           /\ \E n \in {m \in Lengths : m > 0 /\ m <= MAX_IMAGE_SIZE} :
                 inv' = [inv EXCEPT ![2] =
                           NewInvocation([tool |-> "base64",
                                          base64 |-> [decodedLength |-> n, throws |-> FALSE],
                                          mime_type |-> out.mimeType,
                                          resize |-> inv[1].req.resize,
                                          max_width |-> inv[1].req.max_width,
                                          max_height |-> inv[1].req.max_height])]
    /\ active' = 2
    /\ UNCHANGED <<ALLOWED_DOMAINS, MAX_IMAGE_SIZE, disk>>

Init ==
    /\ \E env \in AllowedDomainsEnv : ALLOWED_DOMAINS = ParseAllowedDomains(env)
    /\ MAX_IMAGE_SIZE = DefaultMaxImageSize
    /\ world = NoAnswers
    /\ active = 1
    /\ disk = NoDisk
    /\ \E req \in Requests :
          inv = [i \in {1, 2} |->
                   IF i = 1 THEN NewInvocation(req)
                   ELSE [NewInvocation(req) EXCEPT !.pc = "idle"]]

Step(i) ==
    \/ StartFile(i)
    \/ StartUrl(i)
    \/ Fetch(i)
    \/ StartBase64(i)
    \/ StartScreenshot(i)
    \/ Launch(i)
    \/ NewPage(i)
    \/ SetViewport(i)
    \/ Goto(i)
    \/ WaitLoad(i)
    \/ WaitForSelector(i)
    \/ ClickSelector(i)
    \/ Click(i)
    \/ ClickWaitAfter(i)
    \/ Screenshot(i)
    \/ Probe(i)
    \/ Resize(i)
    \/ Reprobe(i)
    \/ Compress(i)
    \/ Finally(i)

\* one invocation
Next == Step(active)

Spec == Init /\ [][Next]_vars

\* every external call eventually returns or throws: a function suspended at
\* an await is eventually resumed
SpecLive == Init /\ [][Next]_vars /\ WF_vars(Next)

\* the invocation, then the same request with other parameters
NextAgain ==
    \/ Step(active)
    \/ Again

SpecAgain == Init /\ [][NextAgain]_vars

\* the invocation, then its output as the input of a second one
NextFeed ==
    \/ Step(active)
    \/ Feed

SpecFeed == Init /\ [][NextFeed]_vars

(***************************************************************************)
(* Two invocations that run at the same time: the event loop runs the code *)
(* between two awaits of one invocation, then that of either.  When both   *)
(* are done, the request of one of them is run once more, alone.           *)
(***************************************************************************)
\* the requests of the concurrent calls: one for each tool
ConcurrentRequests ==
    { req \in Requests :
        /\ req.resize /\ req.max_width = 800
        /\ req.tool = "file" => req.file_path = <<"a", ".", "P", "N", "G">>
        /\ req.tool \in {"url", "screenshot"} => req.url = HTTPS \o ex_com \o x_png
        /\ req.tool = "base64" =>
              /\ req.base64 = [decodedLength |-> DefaultMaxImageSize, throws |-> FALSE]
              /\ req.mime_type = "image/png"
        /\ req.tool = "screenshot" => req.wait_for_selector # "" }

\* the image both calls are about: a large one, a small one, a broken one
ConcurrentImages ==
    { im \in ScreenshotImages :
        im.ok => <<im.width, im.height>> \in {<<1920, 1080>>, <<400, 300>>} }

InitConcurrent ==
    /\ \E env \in AllowedDomainsEnv : ALLOWED_DOMAINS = ParseAllowedDomains(env)
    /\ MAX_IMAGE_SIZE = DefaultMaxImageSize
    /\ \E im \in ConcurrentImages : world = [NoAnswers EXCEPT !.image = {im}]
    /\ active = 1
    /\ disk = NoDisk
    /\ \E req1 \in ConcurrentRequests, req2 \in ConcurrentRequests :
          inv = [i \in {1, 2, 3} |->
                   IF i = 1 THEN NewInvocation(req1)
                   ELSE IF i = 2 THEN NewInvocation(req2)
                   ELSE [NewInvocation(req1) EXCEPT !.pc = "idle"]]

\* the invocations the event loop may resume
Resumable == IF active = 1 THEN {1, 2} ELSE {active}

Interleave == \E i \in Resumable : Step(i)

\* the request of invocation k, run alone in the same environment
Alone ==
    /\ active = 1
    /\ Running(1, "done")
    /\ Running(2, "done")
    /\ \E k \in {1, 2} :
          inv' = [inv EXCEPT ![3] = NewInvocation(inv[k].req)]
    /\ active' = 3
    /\ UNCHANGED <<ALLOWED_DOMAINS, MAX_IMAGE_SIZE, world, disk>>

NextConcurrent ==
    \/ Interleave
    \/ Alone

SpecConcurrent == InitConcurrent /\ [][NextConcurrent]_vars

\* a call of save_screenshot
InitSave ==
    /\ \E env \in AllowedDomainsEnv : ALLOWED_DOMAINS = ParseAllowedDomains(env)
    /\ MAX_IMAGE_SIZE = DefaultMaxImageSize
    /\ world = NoAnswers
    /\ active = 1
    /\ disk \in Disks
    /\ \E req \in SaveRequests :
          inv = [i \in {1, 2} |->
                   IF i = 1 THEN NewSave(req)
                   ELSE [NewSave(req) EXCEPT !.pc = "idle"]]

NextSave ==
    \/ StartSave(active)
    \/ ToFile(active)

SpecSave == InitSave /\ [][NextSave]_vars

\* a call of any tool of the two servers
InitServer == Init \/ InitSave

NextServer ==
    \/ Step(active)
    \/ StartSave(active)
    \/ ToFile(active)

SpecServer == InitServer /\ [][NextServer]_vars

TypeOK ==
    /\ active \in DOMAIN inv
    /\ \A i \in DOMAIN inv : inv[i].pc \in
          {"idle", "start", "fetch", "probe", "resize", "reprobe", "compress",
           "launch", "newPage", "setViewport", "goto", "waitLoad", "waitForSelector",
           "clickSelector", "click", "clickWaitAfter", "screenshot", "finally",
           "toFile", "done"}

(***************************************************************************)
(* Observations on an invocation                                           *)
(***************************************************************************)
Ids == {1, 2}

\* the function returned a result (extractScreenshotFromUrl may still have
\* its finally block to run)
Returned(i) == inv[i].result # NoResult

IsSuccess(i) == Returned(i) /\ ~inv[i].result.isError

IsFailure(i) == Returned(i) /\ inv[i].result.isError

\* the object in the text block of a Success
Json(i) == inv[i].result.content[1].json

\* the text of a Failure
ErrorText(i) == inv[i].result.content[1].text

HasProbed(i) == Len(inv[i].probes) >= 1

\* the answer of the first metadata call
FirstProbe(i) == inv[i].probes[1]

ResizeCalls(i) == Len(inv[i].resizeArgs)

\* the request went past the validation of its URL
Accepted(i) == inv[i].pc \in {"fetch", "launch"} \/ inv[i].trace # <<>>

IsUrlSourced(i) == inv[i].req.tool \in {"url", "screenshot"}

\* host is entry, or ends with "." followed by entry
MatchesEntry(host, entry) ==
    \/ host = entry
    \/ /\ Len(host) > Len(entry)
       /\ host[Len(host) - Len(entry)] = "."
       /\ \A k \in 1..Len(entry) : host[Len(host) - Len(entry) + k] = entry[k]

\* the allow-list is set, the URL is an http(s) URL with a host, and the host
\* matches no entry
RejectedByAllowList(i) ==
    /\ IsUrlSourced(i)
    /\ inv[i].pc \notin {"idle", "start"}
    /\ HasHttpScheme(inv[i].req.url)
    /\ UrlParses(inv[i].req.url)
    /\ Len(ALLOWED_DOMAINS) > 0
    /\ \A k \in 1..Len(ALLOWED_DOMAINS) :
          ~MatchesEntry(Hostname(inv[i].req.url), ALLOWED_DOMAINS[k])

C2_SmallUntouched ==
    \A i \in Ids :
        (/\ HasProbed(i)
         /\ FirstProbe(i).width <= 512
         /\ FirstProbe(i).height <= 512)
        => /\ ResizeCalls(i) = 0
           /\ \A k \in 1..Len(inv[i].trace) : inv[i].trace[k] # "sharp.resize"
           /\ IsSuccess(i) => /\ Json(i).width = FirstProbe(i).width
                              /\ Json(i).height = FirstProbe(i).height

C2_Witness ==
    \E i \in Ids :
        /\ IsSuccess(i)
        /\ FirstProbe(i).width = 512 /\ FirstProbe(i).height = 511
        /\ ResizeCalls(i) = 0
        /\ Json(i).width = 512 /\ Json(i).height = 511

(***************************************************************************)
(* C3.  As claimed: when the probed width or height exceeds 512, a Success *)
(* reports the larger dimension as 512 and the smaller one as              *)
(* round(smaller * 512 / larger).                                          *)
(***************************************************************************)
C3_Original ==
    \A i \in Ids :
        (/\ IsSuccess(i)
         /\ FirstProbe(i).width > 0 /\ FirstProbe(i).height > 0
         /\ (FirstProbe(i).width > 512 \/ FirstProbe(i).height > 512))
        => LET W == FirstProbe(i).width
               H == FirstProbe(i).height
           IN  IF W >= H
               THEN Json(i).width = 512 /\ Json(i).height = RoundDiv(H * 512, W)
               ELSE Json(i).height = 512 /\ Json(i).width = RoundDiv(W * 512, H)

(***************************************************************************)
(* C3, amended.  When the probed width and height are both non-zero and    *)
(* one of them exceeds 512, a Success reports the larger dimension as 512  *)
(* and the smaller one as max(1, round(smaller * 512 / larger)): no axis   *)
(* goes below one pixel.                                                   *)
(***************************************************************************)
C3_Fitted ==
    \A i \in Ids :
        (/\ IsSuccess(i)
         /\ FirstProbe(i).width > 0 /\ FirstProbe(i).height > 0
         /\ (FirstProbe(i).width > 512 \/ FirstProbe(i).height > 512))
        => LET W == FirstProbe(i).width
               H == FirstProbe(i).height
           IN  IF W >= H
               THEN Json(i).width = 512 /\ Json(i).height = Max(1, RoundDiv(H * 512, W))
               ELSE Json(i).height = 512 /\ Json(i).width = Max(1, RoundDiv(W * 512, H))

C3_Witness ==
    \E i \in Ids :
        /\ IsSuccess(i)
        /\ FirstProbe(i).width = 1080 /\ FirstProbe(i).height = 1
        /\ ResizeCalls(i) = 1
        /\ Json(i).width = 512 /\ Json(i).height = 1

(***************************************************************************)
(* C4.  As claimed: the resize is invoked with the fitted dimensions as    *)
(* its target (1920x1080 gives 512x288, 1080x1920 gives 288x512, 1200x800  *)
(* gives 512x341), fit 'inside', withoutEnlargement true.                  *)
(***************************************************************************)
C4_TargetIsFitted ==
    \A i \in Ids :
        ResizeCalls(i) >= 1 =>
            LET W == FirstProbe(i).width
                H == FirstProbe(i).height
                fitted == IF W >= H THEN <<512, Max(1, RoundDiv(H * 512, W))>>
                          ELSE <<Max(1, RoundDiv(W * 512, H)), 512>>
            IN  inv[i].resizeArgs[1] =
                    [width |-> fitted[1], height |-> fitted[2],
                     fit |-> "inside", withoutEnlargement |-> TRUE]

C6_CallerBounds ==
    \A i \in Ids :
        (/\ inv[i].req.tool = "screenshot"
         /\ IsSuccess(i)
         /\ FirstProbe(i).width = 1920 /\ FirstProbe(i).height = 1080)
        => LET req == inv[i].req
               Expect(w, h) ==
                   /\ ResizeCalls(i) = 1
                   /\ inv[i].resizeArgs[1].width = w /\ inv[i].resizeArgs[1].height = h
                   /\ Json(i).width = w /\ Json(i).height = h
           IN  /\ (req.max_width = 800 /\ req.max_height = 600) => Expect(800, 450)
               /\ (req.max_width = 100 /\ req.max_height = 100) => Expect(100, 56)

(***************************************************************************)
(* C7.  As claimed: with resize = false the image is never resized and a   *)
(* Success reports its original dimensions.                                *)
(***************************************************************************)
C7_ResizeFalse ==
    \A i \in Ids :
        (inv[i].pc # "idle" /\ ~inv[i].req.resize)
        => /\ ResizeCalls(i) = 0
           /\ IsSuccess(i) => /\ Json(i).width = FirstProbe(i).width
                              /\ Json(i).height = FirstProbe(i).height

(***************************************************************************)
(* C8.  As claimed: extractScreenshotFromUrl never invokes resize and a    *)
(* Success reports the captured width and height.                          *)
(***************************************************************************)
C8_ScreenshotKeepsSize ==
    \A i \in Ids :
        (inv[i].pc # "idle" /\ inv[i].req.tool = "screenshot")
        => /\ ResizeCalls(i) = 0
           /\ IsSuccess(i) => /\ Json(i).width = FirstProbe(i).width
                              /\ Json(i).height = FirstProbe(i).height

(***************************************************************************)
(* C9.  A request for an http(s) URL with a host goes past the validation  *)
(* iff the allow-list is empty or the host equals an entry or ends with    *)
(* "." followed by an entry; with an empty allow-list every http(s) URL    *)
(* goes past it.                                                           *)
(***************************************************************************)
C9_AllowList ==
    \A i \in Ids :
        (/\ IsUrlSourced(i)
         /\ inv[i].pc \notin {"idle", "start"}
         /\ HasHttpScheme(inv[i].req.url))
        => /\ Len(ALLOWED_DOMAINS) = 0 => Accepted(i)
           /\ (Len(ALLOWED_DOMAINS) > 0 /\ UrlParses(inv[i].req.url))
              => (Accepted(i) <=>
                    \E k \in 1..Len(ALLOWED_DOMAINS) :
                        MatchesEntry(Hostname(inv[i].req.url), ALLOWED_DOMAINS[k]))

\* notex.com is rejected under ALLOWED_DOMAINS=o.org,ex.com
C9_Witness ==
    \E i \in Ids :
        /\ IsUrlSourced(i)
        /\ Len(ALLOWED_DOMAINS) = 2
        /\ Hostname(inv[i].req.url) = notex_com
        /\ IsFailure(i)
        /\ ~Accepted(i)

CallCount(i, name) ==
    Cardinality({k \in 1..Len(inv[i].trace) : inv[i].trace[k] = name})

\* the place of the only call of `name` in the calls of the invocation
Position(i, name) == CHOOSE k \in 1..Len(inv[i].trace) : inv[i].trace[k] = name

\* the invocation called sharp
CalledSharp(i) ==
    \E k \in 1..Len(inv[i].trace) :
        inv[i].trace[k] \in {"sharp.metadata", "sharp.resize", "compressImage"}

\* puppeteer.launch was called and gave a browser
LaunchSucceeded(i) ==
    /\ CallCount(i, "puppeteer.launch") = 1
    /\ world.launch = {TRUE}

\* the validation of the URL returned a Failure
ValidationRejects(i) ==
    /\ IsUrlSourced(i)
    /\ inv[i].pc \notin {"idle", "start"}
    /\ \/ ~HasHttpScheme(inv[i].req.url)
       \/ RejectedByAllowList(i)

(***************************************************************************)
(* C11.  A URL-sourced request whose URL starts with neither http:// nor   *)
(* https://, or whose host fails a non-empty allow-list, returns a Failure *)
(* without any call to a collaborator: no axios.get, no puppeteer.launch,  *)
(* no browser.                                                             *)
(***************************************************************************)
C11_RejectedBeforeIO ==
    \A i \in Ids :
        ValidationRejects(i)
        => /\ IsFailure(i)
           /\ CallCount(i, "axios.get") = 0
           /\ CallCount(i, "puppeteer.launch") = 0
           /\ inv[i].trace = <<>>
           /\ ~inv[i].browser

C11_Witness ==
    \E i \in Ids :
        /\ inv[i].req.tool = "url"
        /\ inv[i].pc = "done"
        /\ StartsWith(inv[i].req.url, FTP)
        /\ Len(ALLOWED_DOMAINS) = 0
        /\ IsFailure(i)
        /\ ErrorText(i) = SchemeErrorText
        /\ inv[i].trace = <<>>

(***************************************************************************)
(* C12.  In extractScreenshotFromUrl browser.close is called at most once, *)
(* only as the last call before the function is done; when the function is *)
(* done it was called exactly once if puppeteer.launch gave a browser and  *)
(* not at all otherwise (validation rejected, or the launch failed).       *)
(***************************************************************************)
C12_CloseOnce ==
    \A i \in Ids :
        (inv[i].pc # "idle" /\ inv[i].req.tool = "screenshot")
        => /\ CallCount(i, "browser.close") <= 1
           /\ inv[i].pc # "done" => CallCount(i, "browser.close") = 0
           /\ inv[i].pc = "done" =>
                 CallCount(i, "browser.close") = IF LaunchSucceeded(i) THEN 1 ELSE 0
           /\ CallCount(i, "browser.close") = 1 =>
                 inv[i].trace[Len(inv[i].trace)] = "browser.close"

\* a navigation failure, the browser closed
C12_Witness ==
    \E i \in Ids :
        /\ inv[i].req.tool = "screenshot"
        /\ inv[i].pc = "done"
        /\ LaunchSucceeded(i)
        /\ CallCount(i, "page.goto") = 1
        /\ world.goto = {FALSE}
        /\ IsFailure(i)
        /\ ErrorText(i) = CaughtText("page.goto")
        /\ CallCount(i, "browser.close") = 1
        /\ inv[i].trace[Len(inv[i].trace)] = "browser.close"

(***************************************************************************)
(* C13.  As claimed: an invocation whose acquisition failed (missing file, *)
(* read error, network or HTTP error, invalid base64, failed launch,       *)
(* failed navigation) ends with a Failure result and its promise never     *)
(* rejects.                                                                *)
(***************************************************************************)
AcquisitionFailed(i) ==
    \/ /\ inv[i].req.tool = "file"
       /\ \/ CallCount(i, "fs.existsSync") = 1 /\ world.fileExists = {FALSE}
          \/ CallCount(i, "fs.readFileSync") = 1 /\ ~(CHOOSE r \in world.fileRead : TRUE).ok
    \/ /\ inv[i].req.tool = "url"
       /\ CallCount(i, "axios.get") = 1
       /\ ~(CHOOSE r \in world.http : TRUE).ok
    \/ /\ inv[i].req.tool = "base64"
       /\ inv[i].pc \notin {"idle", "start"}
       /\ inv[i].req.base64.throws \/ inv[i].req.base64.decodedLength = 0
    \/ /\ inv[i].req.tool = "screenshot"
       /\ \/ CallCount(i, "puppeteer.launch") = 1 /\ world.launch = {FALSE}
          \/ CallCount(i, "page.goto") = 1 /\ world.goto = {FALSE}

C13_NeverRejects ==
    \A i \in Ids :
        (inv[i].pc = "done" /\ AcquisitionFailed(i))
        => /\ ~inv[i].rejected
           /\ IsFailure(i)

(***************************************************************************)
(* Shapes of a result                                                      *)
(***************************************************************************)
\* the text begins with a literal that begins with "Error:"
StartsWithError(text) ==
    /\ Len(text) >= 1
    /\ DOMAIN text[1] = {"lit"}
    /\ Len(text[1].lit) >= 6
    /\ SubSeq(text[1].lit, 1, 6) = "Error:"

\* one text block that begins with "Error:", isError set
FailureShape(r) ==
    /\ r.isError
    /\ Len(r.content) = 1
    /\ r.content[1].type = "text"
    /\ StartsWithError(r.content[1].text)

\* the metadata text block then the image block, no isError
SuccessShape(r) ==
    /\ ~r.isError
    /\ Len(r.content) = 2
    /\ r.content[1].type = "text"
    /\ "json" \in DOMAIN r.content[1]
    /\ r.content[2].type = "image"

(***************************************************************************)
(* C14.  As claimed: every result is a Failure (one text block beginning   *)
(* with "Error:", error flag set) or a Success (text metadata block then   *)
(* image block, no error flag); no text beginning with "Error:" comes      *)
(* without the error flag.                                                 *)
(***************************************************************************)
C14_TwoShapes ==
    \A i \in Ids :
        Returned(i)
        => /\ FailureShape(inv[i].result) \/ SuccessShape(inv[i].result)
           /\ \A k \in 1..Len(inv[i].result.content) :
                 (/\ "text" \in DOMAIN inv[i].result.content[k]
                  /\ StartsWithError(inv[i].result.content[k].text))
                 => inv[i].result.isError

(***************************************************************************)
(* C15.  For the file, URL and base64 sources: when the bytes obtained     *)
(* (read, sent by the server, decoded) are more than MAX_IMAGE_SIZE the    *)
(* invocation returns a Failure and sharp is never called on them: no      *)
(* probe, no resize, no compression.                                       *)
(***************************************************************************)
ObtainedTooLarge(i) ==
    \/ /\ inv[i].req.tool = "file"
       /\ CallCount(i, "fs.readFileSync") = 1
       /\ (CHOOSE r \in world.fileRead : TRUE).ok
       /\ (CHOOSE r \in world.fileRead : TRUE).len > MAX_IMAGE_SIZE
    \/ /\ inv[i].req.tool = "url"
       /\ CallCount(i, "axios.get") = 1
       /\ (CHOOSE r \in world.http : TRUE).ok
       /\ (CHOOSE r \in world.http : TRUE).len > MAX_IMAGE_SIZE
    \/ /\ inv[i].req.tool = "base64"
       /\ inv[i].pc \notin {"idle", "start"}
       /\ ~inv[i].req.base64.throws
       /\ inv[i].req.base64.decodedLength > MAX_IMAGE_SIZE

C15_SizeCeiling ==
    \A i \in Ids :
        ObtainedTooLarge(i)
        => /\ IsFailure(i)
           /\ inv[i].pc = "done"
           /\ ~CalledSharp(i)
           /\ inv[i].probes = <<>>
           /\ inv[i].resizeArgs = <<>>
           /\ inv[i].req.tool \in {"file", "base64"}
                 => ErrorText(i) = TooLargeText(MAX_IMAGE_SIZE)

C15_Witness ==
    \E i \in Ids :
        /\ inv[i].req.tool = "base64"
        /\ inv[i].req.base64.decodedLength = DefaultMaxImageSize + 1
        /\ inv[i].pc = "done"
        /\ IsFailure(i)
        /\ ErrorText(i) = TooLargeText(10485760)
        /\ inv[i].trace = <<>>

(***************************************************************************)
(* C16.  A base64 request whose payload decodes to an empty buffer, or     *)
(* whose decode throws, returns the Failure "Error: Invalid base64 string  *)
(* - ..." and sharp is never called.                                       *)
(***************************************************************************)
C16_EmptyDecode ==
    \A i \in Ids :
        (/\ inv[i].req.tool = "base64"
         /\ inv[i].pc \notin {"idle", "start"}
         /\ inv[i].req.base64.throws \/ inv[i].req.base64.decodedLength = 0)
        => /\ IsFailure(i)
           /\ inv[i].pc = "done"
           /\ ErrorText(i)[1] = Lit("Error: Invalid base64 string - ")
           /\ ~CalledSharp(i)
           /\ inv[i].probes = <<>>

C16_Witness ==
    \E i \in Ids :
        /\ inv[i].req.tool = "base64"
        /\ ~inv[i].req.base64.throws
        /\ inv[i].req.base64.decodedLength = 0
        /\ inv[i].pc = "done"
        /\ IsFailure(i)
        /\ ErrorText(i) = InvalidBase64Text
        /\ inv[i].trace = <<>>

(***************************************************************************)
(* C17.  In extractScreenshotFromUrl a failed wait_for_selector wait, a    *)
(* failed wait for click_selector or a failed click never ends the call:   *)
(* no Failure carries its exception, and once the call is past the capture *)
(* page.screenshot was called exactly once, after the failed step.         *)
(***************************************************************************)
OptionalSteps ==
    { [call |-> "page.waitForSelector wait_for_selector", answer |-> "waitForSelector"],
      [call |-> "page.waitForSelector click_selector", answer |-> "clickSelector"],
      [call |-> "page.click", answer |-> "click"] }

\* the optional step was called and threw
StepFailed(i, step) ==
    /\ inv[i].req.tool = "screenshot"
    /\ CallCount(i, step.call) = 1
    /\ world[step.answer] = {FALSE}

C17_OptionalStepsDowngraded ==
    \A i \in Ids : \A step \in OptionalSteps :
        StepFailed(i, step)
        => /\ CallCount(i, "page.screenshot") <= 1
           /\ IsFailure(i) => ErrorText(i) # CaughtText(step.call)
           /\ inv[i].pc \in {"clickSelector", "click", "clickWaitAfter", "screenshot"}
                 => CallCount(i, "page.screenshot") = 0
           /\ inv[i].pc \notin {"clickSelector", "click", "clickWaitAfter", "screenshot"}
                 => /\ CallCount(i, "page.screenshot") = 1
                    /\ Position(i, "page.screenshot") > Position(i, step.call)

\* the selector never appears and the click fails: still a Success
C17_Witness ==
    \E i \in Ids :
        /\ inv[i].req.tool = "screenshot"
        /\ inv[i].pc = "done"
        /\ \A step \in {s \in OptionalSteps : s.answer \in {"waitForSelector", "click"}} :
              StepFailed(i, step)
        /\ CallCount(i, "page.screenshot") = 1
        /\ IsSuccess(i)

(***************************************************************************)
(* C18.  When compressImage throws, the function returns a Success whose   *)
(* image data and reported size are those of the buffer as it stood before *)
(* the compression (the obtained buffer, resized if a resize took place);  *)
(* it never returns a Failure.                                             *)
(***************************************************************************)
CompressionFailed(i) ==
    /\ CallCount(i, "compressImage") = 1
    /\ world.compress = {FALSE}

\* where the buffer of each function comes from
SourceOf(tool) ==
    CASE tool = "file" -> "file"
      [] tool = "url" -> "http"
      [] tool = "base64" -> "base64"
      [] OTHER -> "screenshot"

\* the buffer handed to compressImage
BeforeCompression(i) ==
    IF ResizeCalls(i) = 0 THEN Acquired(SourceOf(inv[i].req.tool))
    ELSE Resized(Acquired(SourceOf(inv[i].req.tool)),
                 inv[i].resizeArgs[1].width, inv[i].resizeArgs[1].height)

C19_Idempotent ==
    inv[2].pc # "idle"
    => /\ ResizeCalls(2) = 0
       /\ CallCount(2, "sharp.resize") = 0
       /\ (HasProbed(2) /\ FirstProbe(1).width # 0 /\ FirstProbe(1).height # 0)
             => /\ FirstProbe(2).width <= 512
                /\ FirstProbe(2).height <= 512
       /\ IsSuccess(2) => /\ Json(2).width = Json(1).width
                          /\ Json(2).height = Json(1).height

\* 1920x1080 came out as 512x288 and stays 512x288
C19_Witness ==
    /\ inv[2].pc = "done"
    /\ FirstProbe(1).width = 1920 /\ FirstProbe(1).height = 1080
    /\ ResizeCalls(1) = 1
    /\ IsSuccess(2)
    /\ ResizeCalls(2) = 0
    /\ FirstProbe(2).width = 512 /\ FirstProbe(2).height = 288
    /\ Json(2).width = 512 /\ Json(2).height = 288

(***************************************************************************)
(* save_screenshot observed                                                *)
(***************************************************************************)
\* a call of save_screenshot with an image returned the "saved" text
Saved(i) ==
    /\ inv[i].req.tool = "save"
    /\ inv[i].pc = "done"
    /\ inv[i].req.base64.isImage
    /\ inv[i].result.content[1].text[1] = Lit("Screenshot saved to ")

\* the path the result names
SavedPath(i) == inv[i].result.content[1].text[2].str

\* the name of the file of `path`, without directory and extension
BaseName(path, format) ==
    SubSeq(path, Len(ScreenshotsDir) + 2, Len(path) - Len(format) - 1)

\* an ISO instant with ":" and "." replaced: 2025-01-02T03-04-05-678Z
IsTimestamp(t) ==
    /\ Len(t) = 24
    /\ t[11] = "T"
    /\ t[24] = "Z"
    /\ \A k \in 1..Len(t) : t[k] \notin {":", "."}

\* the file is in screenshots/ under the working directory, named
\* <filename>.<format>, or screenshot-<timestamp>.<format> without filename,
\* and the directory exists
WrittenAsNamed(i) ==
    LET path == SavedPath(i)
        req == inv[i].req
        base == BaseName(path, req.format)
    IN  /\ ScreenshotsDir \in disk.dirs
        /\ Cardinality({f \in disk.files : f.path = path}) = 1
        /\ StartsWith(path, ScreenshotsDir \o <<"/">>)
        /\ EndsWith(path, <<".">> \o req.format)
        /\ \A k \in 1..Len(base) : base[k] # "/"
        /\ req.filename # <<>> => base = req.filename
        /\ req.filename = <<>> =>
              /\ StartsWith(base, screenshot_dash)
              /\ IsTimestamp(SubSeq(base, Len(screenshot_dash) + 1, Len(base)))

(***************************************************************************)
(* C20.  As claimed: save_screenshot with an image creates screenshots/    *)
(* when absent, writes screenshot-<timestamp>.<format> (<filename>.<format> *)
(* with a filename) and reports a size equal to the size of the file on    *)
(* disk.                                                                   *)
(***************************************************************************)
C20_Original ==
    \A i \in Ids :
        Saved(i)
        => /\ WrittenAsNamed(i)
           /\ \E f \in disk.files :
                 /\ f.path = SavedPath(i)
                 /\ \E n \in 1..Len(inv[i].result.content[1].text) :
                       inv[i].result.content[1].text[n] = Num(f.size)

(***************************************************************************)
(* C20, amended.  save_screenshot with an image, when the directory and    *)
(* the file can be written, creates screenshots/ when absent, writes       *)
(* screenshot-<timestamp>.<format> (<filename>.<format> with a filename)   *)
(* in it and returns the one text "Screenshot saved to <path>" with the    *)
(* path of the written file; it reports no size.                           *)
(***************************************************************************)
C20_SavedPathOnly ==
    \A i \in Ids :
        Saved(i)
        => /\ WrittenAsNamed(i)
           /\ Len(inv[i].result.content) = 1
           /\ inv[i].result.content[1].text =
                 <<Lit("Screenshot saved to "), Str(inv[i].filePath)>>
           /\ \A n \in 1..Len(inv[i].result.content[1].text) :
                 DOMAIN inv[i].result.content[1].text[n] # {"num"}

\* no filename, no screenshots/ before the call: the directory is made and
\* screenshot-<timestamp>.png written
C20_Witness ==
    \E i \in Ids :
        /\ Saved(i)
        /\ inv[i].req.filename = <<>>
        /\ inv[i].req.format = <<"p", "n", "g">>
        /\ CallCount(i, "fs.mkdirSync") = 1
        /\ ScreenshotsDir \in disk.dirs
        /\ \E f \in disk.files :
              /\ f.path = SavedPath(i)
              /\ f.encoder = "png"
              /\ f.size = 1024
        /\ StartsWith(BaseName(SavedPath(i), inv[i].req.format), screenshot_dash)

(***************************************************************************)
(* C21.  Under every interleaving of two invocations: a step changes the   *)
(* locals of one invocation only, ALLOWED_DOMAINS and MAX_IMAGE_SIZE never *)
(* change, and the result of each invocation is the result its request     *)
(* gives when it runs alone.                                               *)
(***************************************************************************)
\* the same request run alone ended as invocation k did
SameOutcome(k) ==
    /\ inv[3].result = inv[k].result
    /\ inv[3].rejected = inv[k].rejected
    /\ inv[3].trace = inv[k].trace
    /\ inv[3].resizeArgs = inv[k].resizeArgs

C21_Isolated ==
    /\ [](\A k \in {1, 2} :
            (inv[3].pc = "done" /\ inv[3].req = inv[k].req) => SameOutcome(k))
    /\ [][/\ ALLOWED_DOMAINS' = ALLOWED_DOMAINS
          /\ MAX_IMAGE_SIZE' = MAX_IMAGE_SIZE
          /\ ~(inv'[1] # inv[1] /\ inv'[2] # inv[2])
          /\ active = 1 => (inv'[3].pc = "idle" \/ inv'[3].pc = "start")]_vars

\* a screenshot and a download, both running, then both done and the
\* screenshot request run again alone
C21_Witness ==
    /\ inv[1].req.tool = "screenshot"
    /\ inv[2].req.tool = "url"
    /\ inv[1].pc = "done" /\ inv[2].pc = "done" /\ inv[3].pc = "done"
    /\ inv[3].req = inv[1].req
    /\ IsSuccess(1) /\ IsSuccess(2) /\ IsSuccess(3)
    /\ inv[3].result = inv[1].result

(***************************************************************************)
(* C22.  The mimeType of the image block of a Success: for a file the      *)
(* entry of the extension table (any letter case, image/jpeg for every     *)
(* other extension), for a URL the content-type header or image/jpeg when  *)
(* it is absent, for base64 the mime_type of the caller, for a screenshot  *)
(* image/png.                                                              *)
(***************************************************************************)
\* the image block
ImageBlock(i) == inv[i].result.content[2]

\* the table of the claim, for the file names of the model
TableMimeType(file_path) ==
    CASE file_path = <<"a", ".", "P", "N", "G">> -> "image/png"
      [] file_path = <<"a", ".", "j", "p", "g">> -> "image/jpeg"
      [] file_path = <<"a", ".", "J", "P", "E", "G">> -> "image/jpeg"
      [] file_path = <<"a", ".", "g", "i", "f">> -> "image/gif"
      [] file_path = <<"a", ".", "w", "e", "b", "p">> -> "image/webp"
      [] file_path = <<"a", ".", "s", "v", "g">> -> "image/svg+xml"
      [] file_path = <<"a", ".", "a", "v", "i", "f">> -> "image/avif"
      [] OTHER -> "image/jpeg"

\* response.headers['content-type'] of the download, "" when absent
ContentTypeHeader == (CHOOSE r \in world.http : TRUE).contentType

C22_MimeType ==
    \A i \in Ids :
        IsSuccess(i) =>
            ImageBlock(i).mimeType =
                CASE inv[i].req.tool = "file" -> TableMimeType(inv[i].req.file_path)
                  [] inv[i].req.tool = "url" ->
                        IF ContentTypeHeader = "" THEN "image/jpeg" ELSE ContentTypeHeader
                  [] inv[i].req.tool = "base64" -> inv[i].req.mime_type
                  [] OTHER -> "image/png"

\* a JPEG stored as a.PNG is served as image/png
C22_Witness ==
    \E i \in Ids :
        /\ IsSuccess(i)
        /\ inv[i].req.tool = "file"
        /\ inv[i].req.file_path = <<"a", ".", "P", "N", "G">>
        /\ FirstProbe(i).format = "jpeg"
        /\ ImageBlock(i).mimeType = "image/png"

(***************************************************************************)
(* C23.  Every successful screenshot set the viewport, once, to exactly    *)
(* viewport_width x viewport_height, and its JSON carries url, viewport,   *)
(* full_page, click_selector (null when none was given) and                *)
(* click_wait_after as requested, whatever the size of the capture.        *)
(***************************************************************************)
C23_ViewportEchoed ==
    \A i \in Ids :
        (IsSuccess(i) /\ inv[i].req.tool = "screenshot")
        => /\ CallCount(i, "page.setViewport") = 1
           /\ inv[i].viewport = <<inv[i].req.viewport_width, inv[i].req.viewport_height>>
           /\ Json(i).url = inv[i].req.url
           /\ Json(i).viewport = [width  |-> inv[i].req.viewport_width,
                                  height |-> inv[i].req.viewport_height]
           /\ Json(i).full_page = inv[i].req.full_page
           /\ Json(i).click_selector =
                 (IF inv[i].req.click_selector = "" THEN "null"
                  ELSE inv[i].req.click_selector)
           /\ Json(i).click_wait_after = inv[i].req.click_wait_after

\* a 375 x 667 viewport whose capture is reported with another size
C23_Witness ==
    \E i \in Ids :
        /\ IsSuccess(i)
        /\ inv[i].req.tool = "screenshot"
        /\ inv[i].viewport = <<375, 667>>
        /\ Json(i).viewport = [width |-> 375, height |-> 667]
        /\ <<Json(i).width, Json(i).height>> # <<375, 667>>
        /\ Json(i).click_selector = "#menu"

(***************************************************************************)
(* C24.  As claimed: when the probe reports a zero or undefined width or   *)
(* height, no resize is made and the payload returned is the acquired      *)
(* buffer itself, with no transform (resize or re-encode) applied.         *)
(***************************************************************************)
\* the first probe gave no usable width or height
NoDimensions(i) ==
    /\ HasProbed(i)
    /\ ~(Truthy(FirstProbe(i).width) /\ Truthy(FirstProbe(i).height))

ProbeFailed(i) ==
    /\ CallCount(i, "sharp.metadata") >= 1
    /\ inv[i].probes = <<>>

BrowserSteps(i) ==
    SelectSeq(inv[i].trace,
              LAMBDA name : name \notin {"sharp.metadata", "sharp.resize", "compressImage"})

Optional(condition, steps) == IF condition THEN steps ELSE <<>>

\* the steps the request asks for, given which selector was found and clicked
ExpectedSteps(i) ==
    LET req == inv[i].req IN
    <<"puppeteer.launch", "browser.newPage", "page.setViewport", "page.goto">>
    \o Optional(req.wait_for_load > 0, <<"sleep wait_for_load">>)
    \o Optional(req.wait_for_selector # "", <<"page.waitForSelector wait_for_selector">>)
    \o Optional(req.click_selector # "",
                <<"page.waitForSelector click_selector">>
                \o Optional(world.clickSelector = {TRUE},
                            <<"page.click">>
                            \o Optional(world.click = {TRUE} /\ req.click_wait_after > 0,
                                        <<"sleep click_wait_after">>)))
    \o <<"page.screenshot", "browser.close">>

C26_StepOrder ==
    \A i \in Ids :
        inv[i].req.tool = "screenshot"
        => /\ \A k, l \in 1..Len(inv[i].trace) :
                 (k # l /\ inv[i].trace[k] = inv[i].trace[l])
                 => inv[i].trace[k] = "sharp.metadata"
           /\ (IsSuccess(i) /\ inv[i].pc = "done") => BrowserSteps(i) = ExpectedSteps(i)
           /\ (IsSuccess(i) /\ inv[i].pc = "finally")
                 => BrowserSteps(i) \o <<"browser.close">> = ExpectedSteps(i)

\* every optional step taken: both waits, the click and the sleep after it
C26_Witness ==
    \E i \in Ids :
        /\ inv[i].req.tool = "screenshot"
        /\ IsSuccess(i)
        /\ inv[i].pc = "done"
        /\ BrowserSteps(i) =
              <<"puppeteer.launch", "browser.newPage", "page.setViewport", "page.goto",
                "page.waitForSelector wait_for_selector",
                "page.waitForSelector click_selector", "page.click",
                "sleep click_wait_after", "page.screenshot", "browser.close">>

Delivered(i, r) ==
    /\ inv[i].pc = "done"
    /\ ~inv[i].rejected
    /\ inv[i].result = r
    /\ SuccessShape(r) \/ FailureShape(r)

C28_DeliversOneResult ==
    /\ <>(\E r \in {inv[active].result} : Delivered(active, r))
    /\ [][\A i \in Ids : inv[i].pc = "done" => inv'[i] = inv[i]]_vars

(***************************************************************************)
(* C29.  As claimed: in every Success the reported format and the          *)
(* mimeType of the image block both name the encoding of the bytes that    *)
(* are returned, also for a file whose extension does not match its        *)
(* content or is not in the table.                                         *)
(***************************************************************************)
\* the format sharp would read in the returned bytes
PayloadFormat(i) ==
    MetadataAfter(CHOOSE im \in world.image : TRUE, ImageBlock(i).data.ops).format

\* the MIME type of an image format
MimeTypeOf(format) ==
    CASE format = "png" -> "image/png"
      [] format = "jpeg" -> "image/jpeg"
      [] format = "gif" -> "image/gif"
      [] format = "webp" -> "image/webp"
      [] format = "svg" -> "image/svg+xml"
      [] format = "avif" -> "image/avif"
      [] OTHER -> "image/" \o format

C29_FormatDescribesBytes ==
    \A i \in Ids :
        IsSuccess(i)
        => /\ Json(i).format = PayloadFormat(i)
           /\ ImageBlock(i).mimeType = MimeTypeOf(PayloadFormat(i))

(***************************************************************************)
(* C30.  As claimed: when browser.close itself throws, the invocation      *)
(* still returns the ToolResult it had computed (the Success or the        *)
(* Failure) instead of throwing.                                           *)
(***************************************************************************)
\* browser.close() was called and threw
CloseFailed(i) ==
    /\ CallCount(i, "browser.close") = 1
    /\ world.close = {FALSE}

C30_CloseFailureSwallowed ==
    \A i \in Ids :
        CloseFailed(i)
        => /\ inv[i].pc = "done"
           /\ ~inv[i].rejected
           /\ IsSuccess(i) \/ IsFailure(i)

====
